---- MODULE Spec2Model ----
(***************************************************************************)
(* Model of check_features.py: the driver main() that probes cargo, loads  *)
(* Cargo.toml, enumerates the feature names, runs `cargo check` and        *)
(* `cargo test` once per feature and reports the failures.                 *)
(*                                                                         *)
(* The external world (what each subprocess.run call does, what the        *)
(* manifest file holds) is the input: the manifest is fixed in Init, the   *)
(* outcome of every invocation is chosen when the invocation is made.      *)
(***************************************************************************)
EXTENDS Integers, Sequences, FiniteSets, TLC

VARIABLES
    pc,                    \* position of main(): probe, load, enumerate, check, test, report, done
    manifest,              \* the Cargo.toml of the working directory (never written)
    opened,                \* TRUE once open("Cargo.toml") has been attempted
    feature_names,         \* list built at lines 33-34
    idx,                   \* enumerate(feature_names, 1) counter
    failed_features,       \* list of line 40
    test_failed_features,  \* list of line 41
    invocations,           \* every subprocess.run call made so far, in order, with its outcome
    stdout,                \* the lines printed so far
    exitCode,              \* process exit status, -1 while the process runs
    uncaught               \* exception that left main() uncaught, "none" otherwise

vars == <<pc, manifest, opened, feature_names, idx, failed_features,
          test_failed_features, invocations, stdout, exitCode, uncaught>>

----------------------------------------------------------------------------
(* Bounds and input universes *)

MaxFeatures == 3

\* Feature names are strings; a string is modelled as its sequence of characters.
ReservedPrefix == <<"u", "t", "i", "l", "s", "-">>

NameA == <<"a">>
NameB == <<"b">>
NameC == <<"c">>
NameUtilsA == ReservedPrefix \o <<"a">>
NameUtilsOnly == ReservedPrefix
NameUtilsNoDash == <<"u", "t", "i", "l", "s", "a">>

FeaturePool == {NameA, NameB, NameC, NameUtilsA, NameUtilsOnly, NameUtilsNoDash}

\* What one subprocess.run(..., check=True) call can do: the child exits 0,
\* the child exits non-zero (CalledProcessError), the executable is not found
\* (FileNotFoundError), or the child cannot be started for another reason
\* (PermissionError, an OSError that is not a FileNotFoundError).
Outcomes == {"exit0", "CalledProcessError", "FileNotFoundError", "PermissionError"}

\* Key lists of a TOML table: keys are unique, order is declaration order.
Range(s) == {s[i] : i \in 1..Len(s)}

RECURSIVE InjectiveSeqs(_, _)
InjectiveSeqs(S, n) ==
    IF n = 0 THEN {<<>>}
    ELSE LET shorter == InjectiveSeqs(S, n - 1)
             longest == {t \in shorter : Len(t) = n - 1}
         IN  shorter \cup UNION {{Append(t, x) : x \in S \ Range(t)} : t \in longest}

\* The manifests: the file is missing; it is unreadable or is not TOML; it has
\* no [features] entry; its "features" entry is not a table; it has a
\* [features] table with the given keys.
Manifests ==
    {[kind |-> k, keys |-> <<>>] : k \in {"missing", "malformed", "nofeatures", "nontable"}}
    \cup {[kind |-> "table", keys |-> ks] : ks \in InjectiveSeqs(FeaturePool, MaxFeatures)}

----------------------------------------------------------------------------
(* Pure helpers *)

\* str.startswith
StartsWith(name, prefix) ==
    /\ Len(name) >= Len(prefix)
    /\ SubSeq(name, 1, Len(prefix)) = prefix

IsKept(name) == ~StartsWith(name, ReservedPrefix)

\* Lines 32-34: the keys of the features table, minus the "utils-" names.
FilterFeatures_KeepAll(keys) == keys
FilterFeatures(keys) == SelectSeq(keys, IsKept)

\* One printed line: the format text and the values substituted into it.
Line(text, feature, i, n) == [text |-> text, feature |-> feature, i |-> i, n |-> n]
Plain(text) == Line(text, <<>>, 0, 0)

\* One subprocess.run call.
Invocation(action, feature, outcome) ==
    [action |-> action, feature |-> feature, outcome |-> outcome]

\* "  - f" for each f of the list, in list order (lines 67-68 and 71-72).
RECURSIVE ItemLines(_)
ItemLines(fs) ==
    IF fs = <<>> THEN <<>>
    ELSE <<Line("  - ", Head(fs), 0, 0)>> \o ItemLines(Tail(fs))

----------------------------------------------------------------------------
(* The steps of main() *)

Init ==
    /\ pc = "probe"
    /\ manifest \in Manifests
    /\ opened = FALSE
    /\ feature_names = <<>>
    /\ idx = 0
    /\ failed_features = <<>>
    /\ test_failed_features = <<>>
    /\ invocations = <<>>
    /\ stdout = <<>>
    /\ exitCode = -1
    /\ uncaught = "none"

\* sys.exit(code): the process ends with that status.
SysExit(code) ==
    /\ pc' = "done"
    /\ exitCode' = code
    /\ uncaught' = "none"

\* An exception no handler of main() catches leaves main() (line 79); the
\* interpreter prints the traceback on stderr and the process ends with status 1.
Propagate(exc) ==
    /\ pc' = "done"
    /\ exitCode' = 1
    /\ uncaught' = exc

\* Lines 7-19: what the handlers of the version probe do with its outcome.
\* "go" continues, "exit" is sys.exit(1) after the print, "raise" is no handler.
ProbeHandler_IgnoreFailure(o) ==
    IF o = "FileNotFoundError"
    THEN [do |-> "exit", print |-> <<Plain("Error: 'cargo' not found. Install Rust and ensure it's in PATH.")>>]
    ELSE [do |-> "go", print |-> <<>>]
ProbeHandler(o) ==
    CASE o = "exit0" -> [do |-> "go", print |-> <<>>]
      [] o = "FileNotFoundError" ->
            [do |-> "exit", print |-> <<Plain("Error: 'cargo' not found. Install Rust and ensure it's in PATH.")>>]
      [] o = "CalledProcessError" ->
            [do |-> "exit", print |-> <<Plain("Error checking cargo: {e}")>>]
      [] OTHER -> [do |-> "raise", print |-> <<>>]

\* Lines 7-19: subprocess.run(["cargo", "--version"], check=True).
Probe ==
    /\ pc = "probe"
    /\ \E o \in Outcomes :
         LET h == ProbeHandler(o)
         IN  /\ invocations' = Append(invocations, Invocation("--version", <<>>, o))
             /\ stdout' = stdout \o h.print
             /\ CASE h.do = "go" -> pc' = "load" /\ UNCHANGED <<exitCode, uncaught>>
                   [] h.do = "exit" -> SysExit(1)
                   [] OTHER -> Propagate(o)
    /\ UNCHANGED <<manifest, opened, feature_names, idx, failed_features, test_failed_features>>

\* Lines 22-30: what open() and toml.load() do with the manifest file.
LoadHandler_IgnoreMissing(m) ==
    IF m.kind = "malformed"
    THEN [do |-> "exit", print |-> <<Plain("Error parsing Cargo.toml: {e}")>>]
    ELSE [do |-> "go", print |-> <<>>]
LoadHandler(m) ==
    CASE m.kind = "missing" ->
            [do |-> "exit", print |-> <<Plain("Error: Cargo.toml not found in current directory.")>>]
      [] m.kind = "malformed" ->
            [do |-> "exit", print |-> <<Plain("Error parsing Cargo.toml: {e}")>>]
      [] OTHER -> [do |-> "go", print |-> <<>>]

\* Lines 22-30.
LoadManifest ==
    /\ pc = "load"
    /\ opened' = TRUE
    /\ LET h == LoadHandler(manifest)
       IN  /\ stdout' = stdout \o h.print
           /\ IF h.do = "go"
              THEN pc' = "enumerate" /\ UNCHANGED <<exitCode, uncaught>>
              ELSE SysExit(1)
    /\ UNCHANGED <<manifest, feature_names, idx, failed_features, test_failed_features, invocations>>

\* Line 32: cargo_toml.get("features", {}) of a loaded manifest; line 33 calls
\* .keys() on it, which a value that is not a table does not have.
FeatureKeys(m) == IF m.kind = "table" THEN m.keys ELSE <<>>

\* Lines 36-38: what an empty working set does.
EmptyHandler_NoEarlyExit(names) == [do |-> "go", print |-> <<>>]
EmptyHandler(names) ==
    IF names = <<>>
    THEN [do |-> "exit", print |-> <<Plain("No features defined in Cargo.toml.")>>]
    ELSE [do |-> "go", print |-> <<>>]

\* Lines 32-43.
Enumerate ==
    /\ pc = "enumerate"
    /\ IF manifest.kind = "nontable"
       THEN /\ Propagate("AttributeError")
            /\ UNCHANGED <<feature_names, idx, stdout>>
       ELSE LET names == FilterFeatures(FeatureKeys(manifest))
                h == EmptyHandler(names)
            IN  /\ feature_names' = names
                /\ IF h.do = "exit"
                   THEN /\ stdout' = stdout \o h.print
                        /\ SysExit(0)
                        /\ UNCHANGED idx
                   ELSE /\ stdout' = Append(stdout, Line("Testing {n} features...", <<>>, 0, Len(names)))
                        /\ IF names = <<>>
                           THEN pc' = "report" /\ idx' = 0
                           ELSE pc' = "check" /\ idx' = 1
                        /\ UNCHANGED <<exitCode, uncaught>>
    /\ UNCHANGED <<manifest, opened, failed_features, test_failed_features, invocations>>

\* Lines 47-53 and 56-62: what the handlers around one per-feature invocation
\* do with its outcome: "pass" prints the success line, "record" appends the
\* feature to the stage's failure list and prints the failure line, "raise"
\* is an exception neither try statement handles.
StageHandler(o) ==
    CASE o = "exit0" -> "pass"
      [] o = "CalledProcessError" -> "record"
      [] OTHER -> "raise"

\* Lines 44-53: cargo check --no-default-features --features <feature>.
Check ==
    /\ pc = "check"
    /\ \E o \in Outcomes :
         LET feature == feature_names[idx]
             header == Line("Testing feature {idx}/{n}: {feature}", feature, idx, Len(feature_names))
             h == StageHandler(o)
         IN  /\ invocations' = Append(invocations, Invocation("check", feature, o))
             /\ CASE h = "pass" ->
                        /\ stdout' = stdout \o <<header, Line("Feature '{feature}' compiled successfully", feature, 0, 0)>>
                        /\ pc' = "test"
                        /\ UNCHANGED <<failed_features, exitCode, uncaught>>
                   [] h = "record" ->
                        /\ failed_features' = Append(failed_features, feature)
                        /\ stdout' = stdout \o <<header, Line("Feature '{feature}' failed to compile", feature, 0, 0)>>
                        /\ pc' = "test"
                        /\ UNCHANGED <<exitCode, uncaught>>
                   [] OTHER ->
                        /\ stdout' = Append(stdout, header)
                        /\ Propagate(o)
                        /\ UNCHANGED failed_features
    /\ UNCHANGED <<manifest, opened, feature_names, idx, test_failed_features>>

\* Line 44: the for statement takes the next feature, or the loop is over.
NextFeature ==
    IF idx < Len(feature_names)
    THEN pc' = "check" /\ idx' = idx + 1
    ELSE pc' = "report" /\ idx' = idx

\* Lines 55-62: cargo test --no-default-features --features <feature>.
Test ==
    /\ pc = "test"
    /\ \E o \in Outcomes :
         LET feature == feature_names[idx]
             h == StageHandler(o)
         IN  /\ invocations' = Append(invocations, Invocation("test", feature, o))
             /\ CASE h = "pass" ->
                        /\ stdout' = Append(stdout, Line("Tests for feature '{feature}' passed", feature, 0, 0))
                        /\ NextFeature
                        /\ UNCHANGED <<test_failed_features, exitCode, uncaught>>
                   [] h = "record" ->
                        /\ test_failed_features' = Append(test_failed_features, feature)
                        /\ stdout' = Append(stdout, Line("Tests for feature '{feature}' failed", feature, 0, 0))
                        /\ NextFeature
                        /\ UNCHANGED <<exitCode, uncaught>>
                   [] OTHER ->
                        /\ Propagate(o)
                        /\ UNCHANGED <<stdout, idx, test_failed_features>>
    /\ UNCHANGED <<manifest, opened, feature_names, failed_features>>

\* Lines 64-76: what the report prints for the two failure lists.
ReportLines_TestsFirst(failed, test_failed) ==
    IF failed = <<>> /\ test_failed = <<>>
    THEN <<Plain("All features compiled successfully!")>>
    ELSE (IF test_failed = <<>> THEN <<>>
          ELSE <<Plain("Failed tests for features:")>> \o ItemLines(test_failed))
         \o (IF failed = <<>> THEN <<>>
             ELSE <<Plain("Failed features:")>> \o ItemLines(failed))
ReportLines(failed, test_failed) ==
    IF failed = <<>> /\ test_failed = <<>>
    THEN <<Plain("All features compiled successfully!")>>
    ELSE (IF failed = <<>> THEN <<>>
          ELSE <<Plain("Failed features:")>> \o ItemLines(failed))
         \o (IF test_failed = <<>> THEN <<>>
             ELSE <<Plain("Failed tests for features:")>> \o ItemLines(test_failed))

\* Lines 64, 73 and 76: the status the report exits with.
ReportStatus(failed, test_failed) ==
    IF failed = <<>> /\ test_failed = <<>> THEN 0 ELSE 1

\* Lines 64-76.
Report ==
    /\ pc = "report"
    /\ stdout' = stdout \o ReportLines(failed_features, test_failed_features)
    /\ SysExit(ReportStatus(failed_features, test_failed_features))
    /\ UNCHANGED <<manifest, opened, feature_names, idx, failed_features,
                   test_failed_features, invocations>>

Next ==
    \/ Probe
    \/ LoadManifest
    \/ Enumerate
    \/ Check
    \/ Test
    \/ Report

Spec == Init /\ [][Next]_vars

----------------------------------------------------------------------------
(* Vocabulary of the properties, read off the manifest and the invocation log *)

Done == pc = "done"

\* The name begins with "utils-", spelled out character by character.
Reserved(name) ==
    /\ Len(name) >= 6
    /\ name[1] = "u" /\ name[2] = "t" /\ name[3] = "i"
    /\ name[4] = "l" /\ name[5] = "s" /\ name[6] = "-"

\* The manifest's feature names in declaration order, reserved names removed.
RECURSIVE WorkingSet(_)
WorkingSet(keys) ==
    IF keys = <<>> THEN <<>>
    ELSE IF Reserved(Head(keys)) THEN WorkingSet(Tail(keys))
         ELSE <<Head(keys)>> \o WorkingSet(Tail(keys))

\* check(f1), test(f1), ..., check(fN), test(fN)
RECURSIVE CheckThenTest(_)
CheckThenTest(fs) ==
    IF fs = <<>> THEN <<>>
    ELSE <<<<"check", Head(fs)>>, <<"test", Head(fs)>>>> \o CheckThenTest(Tail(fs))

\* The (action, feature) pairs of a log, in order.
RECURSIVE Calls(_)
Calls(log) ==
    IF log = <<>> THEN <<>>
    ELSE <<<<Head(log).action, Head(log).feature>>>> \o Calls(Tail(log))

\* The features whose invocation of the given action exited non-zero, in log order.
RECURSIVE NonZeroFeatures(_, _)
NonZeroFeatures(log, action) ==
    IF log = <<>> THEN <<>>
    ELSE IF Head(log).action = action /\ Head(log).outcome = "CalledProcessError"
         THEN <<Head(log).feature>> \o NonZeroFeatures(Tail(log), action)
         ELSE NonZeroFeatures(Tail(log), action)

ProbeMade == Len(invocations) >= 1
ProbeOutcome == invocations[1].outcome
ProbeSucceeded == ProbeMade /\ ProbeOutcome = "exit0"
AfterProbe == SubSeq(invocations, 2, Len(invocations))
StageInvocations == {i \in 1..Len(invocations) : invocations[i].action \in {"check", "test"}}

\* The manifest loads and holds a features table (possibly none, read as empty).
HasFeatureTable == manifest.kind \in {"nofeatures", "table"}
ManifestUnloadable == manifest.kind \in {"missing", "malformed"}

\* The run got past the feature enumeration of lines 32-34.
Enumerated ==
    \/ pc \in {"check", "test", "report"}
    \/ Done /\ opened /\ HasFeatureTable

Attempted(action, f) ==
    \E i \in StageInvocations : invocations[i].action = action /\ invocations[i].feature = f
Exited(action, f, outcome) ==
    \E i \in StageInvocations :
        /\ invocations[i].action = action
        /\ invocations[i].feature = f
        /\ invocations[i].outcome = outcome
SomeStageExitedNonZero ==
    \E i \in StageInvocations : invocations[i].outcome = "CalledProcessError"
EveryStageExitedZero ==
    \A f \in Range(WorkingSet(manifest.keys)) :
        Exited("check", f, "exit0") /\ Exited("test", f, "exit0")

HasLine(text) == \E i \in 1..Len(stdout) : stdout[i].text = text
ReportHeaders == {"Failed features:", "Failed tests for features:"}

----------------------------------------------------------------------------
(* Properties *)

\* C1: once the probe and the manifest load have succeeded, the process exits
\* 0 iff the working set is empty or every check and every test invocation
\* exited 0, and exits 1 iff some check or test invocation exited non-zero; it
\* exits 1 when the probe fails or the manifest cannot be loaded.
C1_ExitStatusMatchesOutcomes ==
    Done =>
        /\ (ProbeSucceeded /\ HasFeatureTable) =>
              /\ exitCode = 0 <=> (WorkingSet(manifest.keys) = <<>> \/ EveryStageExitedZero)
              /\ exitCode = 1 <=> SomeStageExitedNonZero
        /\ (~ProbeSucceeded \/ ManifestUnloadable) => exitCode = 1

\* C2: no exception leaves main(): every failure of an invocation, a tool
\* that cannot be started included, is handled where it is made, and a
\* failing invocation of the loop is recorded in its stage's failure list.
C2_NoExceptionLeavesMain ==
    /\ uncaught \notin Outcomes
    /\ \A i \in StageInvocations :
          invocations[i].outcome # "exit0" =>
              invocations[i].feature \in
                  Range(IF invocations[i].action = "check"
                        THEN failed_features ELSE test_failed_features)

\* C3: when exactly one check invocation exits non-zero, for feature F, and
\* every other check invocation exits 0, the run ends with F in
\* failed_features and status 1, every feature of the working set processed.
C3_OneCheckFailureNoShortCircuit ==
    LET checks == {i \in StageInvocations : invocations[i].action = "check"}
        nonzero == {i \in checks : invocations[i].outcome = "CalledProcessError"}
    IN  (/\ Done
         /\ Cardinality(nonzero) = 1
         /\ \A i \in checks \ nonzero : invocations[i].outcome = "exit0")
        => /\ \A i \in nonzero : invocations[i].feature \in Range(failed_features)
           /\ exitCode = 1
           /\ \A f \in Range(feature_names) : Attempted("check", f) /\ Attempted("test", f)

\* C4: for every feature of the working set the test stage is attempted
\* whatever its check stage did, and the feature is in failed_features iff its
\* check exited non-zero, in test_failed_features iff its test exited non-zero.
C4_StagesIndependent ==
    (Done /\ Enumerated) =>
        \A f \in Range(feature_names) :
            /\ Attempted("test", f)
            /\ f \in Range(failed_features) <=> Exited("check", f, "CalledProcessError")
            /\ f \in Range(test_failed_features) <=> Exited("test", f, "CalledProcessError")

\* C5: after the probe the invocations of a finished run are exactly
\* check(f1), test(f1), ..., check(fN), test(fN) over the working set in
\* declaration order, each stage invoked once whatever the outcomes.
C5_InvocationSequence ==
    (Done /\ Enumerated) =>
        Calls(AfterProbe) = CheckThenTest(WorkingSet(manifest.keys))

\* C6: names beginning with "utils-" are in no processed list, no failure
\* list, no printed line and no invocation; every other name of the manifest
\* is in the processed list once the features are enumerated.
C6_ReservedNeverProcessed ==
    /\ \A f \in Range(feature_names) \cup Range(failed_features)
                \cup Range(test_failed_features) : ~Reserved(f)
    /\ \A i \in 1..Len(invocations) : ~Reserved(invocations[i].feature)
    /\ \A i \in 1..Len(stdout) : ~Reserved(stdout[i].feature)
    /\ Enumerated =>
          \A k \in Range(manifest.keys) : ~Reserved(k) => k \in Range(feature_names)

C6_Witness ==
    /\ Done /\ uncaught = "none" /\ exitCode = 1
    /\ \E k \in Range(manifest.keys) : Reserved(k)
    /\ \E k \in Range(manifest.keys) : ~Reserved(k)
    /\ SomeStageExitedNonZero

\* C7 as stated (read for a run whose version probe succeeded): an empty
\* working set ends the run with status 0, the "No features defined" message
\* and zero invocations of the build tool.
C7_EmptyZeroInvocations ==
    (Done /\ ProbeSucceeded /\ HasFeatureTable /\ WorkingSet(manifest.keys) = <<>>) =>
        /\ exitCode = 0
        /\ HasLine("No features defined in Cargo.toml.")
        /\ invocations = <<>>

\* C7 amended: when the version probe succeeds and the working set is empty
\* (no features entry, an empty table, or reserved names only), the run ends
\* with status 0, prints only the "No features defined" message, and the
\* version probe is the only invocation: no check or test is ever invoked.
C7_EmptyOnlyProbe ==
    (HasFeatureTable /\ WorkingSet(manifest.keys) = <<>>) =>
        /\ StageInvocations = {}
        /\ (Done /\ ProbeSucceeded) =>
              /\ exitCode = 0
              /\ uncaught = "none"
              /\ stdout = <<Plain("No features defined in Cargo.toml.")>>
              /\ invocations = <<Invocation("--version", <<>>, "exit0")>>

C7_Witness ==
    /\ Done /\ ProbeSucceeded /\ exitCode = 0
    /\ manifest.kind = "table" /\ manifest.keys # <<>>
    /\ WorkingSet(manifest.keys) = <<>>
    /\ HasLine("No features defined in Cargo.toml.")

\* The run reached the report of lines 64-76.
Reported == Done /\ Enumerated /\ uncaught = "none" /\ feature_names # <<>>

\* What the report printed: stdout after the "Testing {n} features..." line
\* and the three lines of each feature.
ReportPart == SubSeq(stdout, 2 + 3 * Len(feature_names), Len(stdout))

CompileSection == <<Plain("Failed features:")>> \o ItemLines(failed_features)
TestSection == <<Plain("Failed tests for features:")>> \o ItemLines(test_failed_features)

\* C8 as stated: when either failure list is non-empty the report prints
\* each of the two lists, compile failures then test failures, each under its
\* own header, and the process exits 1.
C8_EachSetUnderItsHeader ==
    (Reported /\ (failed_features # <<>> \/ test_failed_features # <<>>)) =>
        /\ exitCode = 1
        /\ ReportPart = CompileSection \o TestSection

\* C8 amended: when either failure list is non-empty the report prints each
\* NON-EMPTY failure list under its own header, compile failures first, the
\* names in the order they failed, and the process exits 1; an empty list
\* prints neither header nor entry. For the manifest a, b, c with check
\* failing only for b and test failing only for c the lists are [b] and [c],
\* the status is 1 and both lists are printed under their headers.
C8_NonEmptySetsUnderHeaders ==
    /\ (Reported /\ (failed_features # <<>> \/ test_failed_features # <<>>)) =>
          /\ exitCode = 1
          /\ failed_features = NonZeroFeatures(invocations, "check")
          /\ test_failed_features = NonZeroFeatures(invocations, "test")
          /\ ReportPart = (IF failed_features = <<>> THEN <<>> ELSE CompileSection)
                          \o (IF test_failed_features = <<>> THEN <<>> ELSE TestSection)
    /\ (/\ Reported
        /\ manifest.keys = <<NameA, NameB, NameC>>
        /\ NonZeroFeatures(invocations, "check") = <<NameB>>
        /\ NonZeroFeatures(invocations, "test") = <<NameC>>) =>
          /\ failed_features = <<NameB>>
          /\ test_failed_features = <<NameC>>
          /\ exitCode = 1
          /\ ReportPart = <<Plain("Failed features:"), Line("  - ", NameB, 0, 0),
                            Plain("Failed tests for features:"), Line("  - ", NameC, 0, 0)>>

C8_Witness ==
    /\ Reported
    /\ manifest.keys = <<NameA, NameB, NameC>>
    /\ NonZeroFeatures(invocations, "check") = <<NameB>>
    /\ NonZeroFeatures(invocations, "test") = <<NameC>>
    /\ exitCode = 1

\* C9: with the manifest missing or malformed the run ends with status 1
\* right after the load, the version probe being the only invocation; no
\* feature is enumerated, neither failure list is populated or reported.
C9_UnloadableManifestEndsRun ==
    ManifestUnloadable =>
        /\ StageInvocations = {}
        /\ Len(invocations) <= 1
        /\ pc \in {"probe", "load", "done"}
        /\ feature_names = <<>> /\ idx = 0
        /\ failed_features = <<>> /\ test_failed_features = <<>>
        /\ \A t \in ReportHeaders : ~HasLine(t)
        /\ opened => Done
        /\ Done => exitCode = 1
        /\ (Done /\ ProbeSucceeded) =>
              /\ uncaught = "none"
              /\ stdout = <<Plain(IF manifest.kind = "missing"
                                  THEN "Error: Cargo.toml not found in current directory."
                                  ELSE "Error parsing Cargo.toml: {e}")>>

C9_Witness ==
    /\ Done /\ ProbeSucceeded /\ opened
    /\ manifest.kind = "missing"
    /\ exitCode = 1

\* C10: when the version probe fails, cargo not found or exiting non-zero,
\* the process ends at once with a non-zero status: the manifest is never
\* opened and no check or test is invoked, whatever the manifest is.
C10_ProbeFailureEndsRun ==
    (ProbeMade /\ ProbeOutcome \in {"FileNotFoundError", "CalledProcessError"}) =>
        /\ Done
        /\ exitCode # 0 /\ exitCode = 1
        /\ uncaught = "none"
        /\ ~opened
        /\ Len(invocations) = 1
        /\ feature_names = <<>>
        /\ Len(stdout) = 1

C10_Witness ==
    /\ Done /\ ProbeMade
    /\ ProbeOutcome = "FileNotFoundError"
    /\ manifest.kind = "missing"
    /\ ~opened /\ exitCode = 1

====
